---- MODULE Spec2Model ----
(***************************************************************************)
(* Model of the image storage control service (src/main.py).               *)
(*                                                                         *)
(* The service watches one directory.  For every created file with an      *)
(* image extension the observer thread runs process_image, which converts  *)
(* the image to grayscale and rewrites the file in place so that its       *)
(* encoded size is at most MAX_SIZE_BYTES: first the default encoding,     *)
(* then a binary search over the quality 1..95, then repeated x0.9         *)
(* downscaling with a new search at every resolution level.                *)
(*                                                                         *)
(* The image codec (PIL) is outside the repository.  It is modelled as a   *)
(* deterministic size function of the pixels, the format and the encoding  *)
(* parameters; the pixel content of a file is abstracted to a complexity   *)
(* factor and a shape of the quality/size curve.                           *)
(***************************************************************************)
EXTENDS Integers, Sequences, FiniteSets, TLC

VARIABLES
    config,             \* what config.ini holds when the service is started
    main,               \* position of the main thread: "start" | "watching" | "exited" | "crashed"
    MAX_SIZE_BYTES,     \* global set by load_config
    files,              \* the watched directory: path -> file content
    queue,              \* creation events delivered by the OS, not yet dispatched
    observer,           \* "unstarted" | "running" | "stopped"
    pc,                 \* position of the observer thread inside on_created/process_image
    image_path,         \* argument of the running process_image
    img,                \* local img of process_image
    buffer,             \* local buffer of process_image (default encoding)
    low, high,          \* locals of find_optimal_quality
    best_quality,
    best_image_bytes,
    wbytes,             \* the bytes handed to f.write
    \* ---- observation (history) variables, never read by the program ----
    nEvents,            \* number of events delivered so far
    delivered,          \* ids of the eligible events, in delivery order
    started,            \* ids of the events for which process_image was entered
    inflight,           \* number of process_image invocations entered and not left
    before,             \* file content when the running cycle was entered
    nEnc,               \* quality-search encodes of the running/last cycle
    nResize,            \* resizes of the running/last cycle (= resolution level)
    outcome,            \* how the last cycle ended
    prev,               \* path -> outcome of the last finished cycle on the current content
    second,             \* the running/last cycle re-processes a file a previous cycle wrote
    nWrites,            \* times the running/last cycle opened the file for writing
    probed              \* qualities encoded by the running/last call of find_optimal_quality

vars == << config, main, MAX_SIZE_BYTES, files, queue, observer, pc, image_path, img, buffer,
           low, high, best_quality, best_image_bytes, wbytes,
           nEvents, delivered, started, inflight, before, nEnc, nResize,
           outcome, prev, second, nWrites, probed >>

----------------------------------------------------------------------------
(* Bounds of the model *)

MaxEvents == 2

MaxSizeKBs == {1, 2}

Cpxs == {1, 2, 100, 1000}

Dims == { <<40, 30>> }

SmallDims == { <<12, 11>> }

----------------------------------------------------------------------------
(* Paths and the extension filter *)

Lower(c) ==
    CASE c = "P" -> "p" [] c = "N" -> "n" [] c = "G" -> "g"
      [] c = "J" -> "j" [] OTHER -> c

LowerSeq(s) == [i \in 1..Len(s) |-> Lower(s[i])]

EndsWith(s, suf) ==
    /\ Len(suf) <= Len(s)
    /\ SubSeq(s, Len(s) - Len(suf) + 1, Len(s)) = suf

valid_extensions ==
    << <<".", "p", "n", "g">>, <<".", "j", "p", "g">>, <<".", "j", "p", "e", "g">>,
       <<".", "b", "m", "p">>, <<".", "g", "i", "f">> >>

\* variant: the path is compared as it is spelled
HasValidExtension_CaseSensitive(path) ==
    \E i \in 1..Len(valid_extensions) : EndsWith(path, valid_extensions[i])

HasValidExtension(path) ==
    \E i \in 1..Len(valid_extensions) : EndsWith(LowerSeq(path), valid_extensions[i])

PathA == <<"a", ".", "P", "N", "G">>
PathB == <<"b", ".", "j", "p", "g">>
PathT == <<"n", ".", "t", "x", "t">>

Paths == {PathA, PathB, PathT}

----------------------------------------------------------------------------
(* Images, encoded bytes and the codec *)

NoImg == [cpx |-> 0, shape |-> "none", fmt |-> "none", mode |-> "none", w |-> 0, h |-> 0]

Image(c, s, f, m, d) ==
    [cpx |-> c, shape |-> s, fmt |-> f, mode |-> m, w |-> d[1], h |-> d[2]]

\* colour images of both formats, every complexity and, for the lossy format,
\* both shapes of the quality/size curve; grayscale images of the least complexity
Images ==
    { Image(c, s, "JPEG", "RGB", d) : c \in Cpxs, s \in {"mono", "dip"}, d \in Dims }
      \cup { Image(c, "mono", "PNG", "RGB", d) : c \in Cpxs, d \in Dims }
      \cup { Image(1, "mono", f, "L", d) : f \in {"JPEG", "PNG"}, d \in Dims }
      \cup { Image(1000, "mono", "JPEG", "RGB", d) : d \in SmallDims }

Hdr == 40
HuffmanOverhead == 20
DefaultQuality == 75
PngDefaultPct == 80
PngOptimizedPct == 40
DipLo == 7
DipHi == 11

Pixels(im) == im.w * im.h

\* size of img.save(buffer, format=original_format, quality=q, optimize=True)
QualitySize(im, q) ==
    IF im.fmt = "JPEG"
    THEN IF im.shape = "dip" /\ q \in DipLo..DipHi
         THEN Hdr
         ELSE Hdr + (Pixels(im) * im.cpx * q) \div 100
    ELSE Hdr + (Pixels(im) * im.cpx * PngOptimizedPct) \div 100

\* size of img.save(buffer, format=original_format)
DefaultSize(im) ==
    IF im.fmt = "JPEG"
    THEN Hdr + HuffmanOverhead + (Pixels(im) * im.cpx * DefaultQuality) \div 100
    ELSE Hdr + (Pixels(im) * im.cpx * PngDefaultPct) \div 100

\* Encoded bytes.  Every record of the module lists its fields in the order
\* in which the field names first occur in the module.
None == [status |-> "none", pixels |-> NoImg, enc |-> "none", quality |-> 0, size |-> 0]

Absent == [status |-> "absent", pixels |-> NoImg, enc |-> "none", quality |-> 0, size |-> 0]

EmptyFile == [status |-> "empty", pixels |-> NoImg, enc |-> "none", quality |-> 0, size |-> 0]

\* the quality parameter only reaches the bytes of the lossy format
EncodeQuality(im, q) ==
    [status |-> "ok", pixels |-> im, enc |-> "quality",
     quality |-> IF im.fmt = "JPEG" THEN q ELSE 0, size |-> QualitySize(im, q)]

EncodeDefault(im) ==
    [status |-> "ok", pixels |-> im, enc |-> "default", quality |-> 0, size |-> DefaultSize(im)]

\* a file dropped into the directory by somebody else
OriginalFile(im, st) ==
    [status |-> st, pixels |-> im, enc |-> "orig", quality |-> 0, size |-> 3 * DefaultSize(im)]

Contents ==
    { OriginalFile(im, "ok") : im \in Images }
      \cup { OriginalFile(NoImg, "not_image"), OriginalFile(NoImg, "bomb") }
      \cup { OriginalFile(im, "truncated") :
                im \in {i \in Images : i.cpx = 1 /\ i.shape = "mono" /\ i.fmt = "PNG"} }

\* Image.open: what the decoder yields for a readable file.  The lossless
\* format gives back the encoded pixels; a lossy file this service wrote gives
\* pixels with the same or less detail.
Decoded(content) ==
    IF content.enc = "orig" \/ content.pixels.fmt # "JPEG"
    THEN { content.pixels }
    ELSE { [content.pixels EXCEPT !.cpx = c] : c \in {x \in Cpxs : x <= content.pixels.cpx} }

Convert(im) == [im EXCEPT !.mode = "L"]

\* variant: a dimension is not taken below the floor
Scale_Clamped(n) == IF (n * 9) \div 10 < 10 THEN 10 ELSE (n * 9) \div 10

\* int(n * 0.9)
Scale(n) == (n * 9) \div 10

Resize(im, nw, nh) == [im EXCEPT !.w = nw, !.h = nh]

----------------------------------------------------------------------------
(* Events *)

PathD == <<"d", ".", "p", "n", "g">>     \* a sub-directory with an image-like name

Event(p, dir, n) == [src_path |-> p, is_directory |-> dir, id |-> n]

Eligible(ev) == ~ev.is_directory /\ HasValidExtension(ev.src_path)

\* a selection of Contents: one file of every way a cycle can end quickly
FewContents ==
    { OriginalFile(Image(1, "mono", "PNG", "L", d), "ok") : d \in Dims }
      \cup { OriginalFile(Image(2, "mono", "JPEG", "RGB", d), "ok") : d \in Dims }
      \cup { OriginalFile(NoImg, "not_image"), OriginalFile(NoImg, "bomb") }

\* what may be dropped at a path: anything at the first image path, the
\* selection at the other image paths, a text file elsewhere
ContentsFor(p) ==
    IF p = PathA THEN Contents
    ELSE IF HasValidExtension(p) THEN FewContents
    ELSE { OriginalFile(NoImg, "not_image") }

----------------------------------------------------------------------------
(* The configuration file and load_config *)

Config(p, l, d, m, k) ==
    [present |-> p, layout |-> l, directory |-> d, maxsize |-> m, kb |-> k]

\* the complete configurations, and one for every way the file can be wrong:
\* no file, no [Settings] section (an empty file, another section, options
\* without any section header), a missing option, a MaxSizeKB that is not
\* a number, a directory that does not exist
Configs ==
    { Config(TRUE, "settings", "is_dir", "int", k) : k \in MaxSizeKBs }
      \cup { Config(FALSE, "none", "missing", "missing", 0),
              Config(TRUE, "empty", "missing", "missing", 0),
              Config(TRUE, "other_section", "is_dir", "int", 1),
              Config(TRUE, "no_header", "is_dir", "int", 1),
              Config(TRUE, "settings", "missing", "int", 1),
              Config(TRUE, "settings", "is_dir", "missing", 0),
              Config(TRUE, "settings", "is_dir", "text", 0),
              Config(TRUE, "settings", "no_such_dir", "int", 1),
              Config(TRUE, "settings", "no_such_dir", "text", 0) }

\* variant: the directory is not looked at
load_config_NoDirCheck(cfg) ==
    IF ~cfg.present THEN "False"
    ELSE IF cfg.layout = "no_header" THEN "MissingSectionHeaderError"
    ELSE IF cfg.layout # "settings" THEN "False"
    ELSE IF cfg.directory = "missing" THEN "False"
    ELSE IF cfg.maxsize = "missing" THEN "False"
    ELSE IF cfg.maxsize = "text" THEN "ValueError"
    ELSE "True"

\* what load_config does with the file: the value it returns, or the
\* exception that leaves it
load_config(cfg) ==
    IF ~cfg.present THEN "False"
    ELSE IF cfg.layout = "no_header" THEN "MissingSectionHeaderError"
    ELSE IF cfg.layout # "settings" THEN "False"
    ELSE IF cfg.directory = "missing" THEN "False"
    ELSE IF cfg.maxsize = "missing" THEN "False"
    ELSE IF cfg.maxsize = "text" THEN "ValueError"
    ELSE IF cfg.directory # "is_dir" THEN "False"
    ELSE "True"

\* line 40 is reached
BudgetAssigned(cfg) ==
    /\ cfg.present /\ cfg.layout = "settings"
    /\ cfg.directory # "missing" /\ cfg.maxsize = "int"

----------------------------------------------------------------------------
(* Initial state: the module is loaded, the main block has not run yet *)

Init ==
    /\ config \in Configs
    /\ main = "start"
    /\ MAX_SIZE_BYTES = 0
    /\ files = [p \in Paths |-> Absent]
    /\ queue = << >>
    /\ observer = "unstarted"
    /\ pc = "idle"
    /\ image_path = PathA
    /\ img = NoImg
    /\ buffer = None
    /\ low = 1
    /\ high = 95
    /\ best_quality = -1
    /\ best_image_bytes = None
    /\ wbytes = None
    /\ nEvents = 0
    /\ delivered = << >>
    /\ started = << >>
    /\ inflight = 0
    /\ before = Absent
    /\ nEnc = 0
    /\ nResize = 0
    /\ outcome = "none"
    /\ prev = [p \in Paths |-> "none"]
    /\ second = FALSE
    /\ nWrites = 0
    /\ probed = {}

globals == << config, main, MAX_SIZE_BYTES >>
locals == << image_path, img, buffer, low, high, best_quality, best_image_bytes, wbytes >>
cycleObs == << started, inflight, before, nEnc, nResize, outcome, prev, second, nWrites,
              probed >>

----------------------------------------------------------------------------
(* The file system and the operator *)

\* the main block: load_config, then the observer is scheduled and started
LoadConfig ==
    /\ main = "start"
    /\ MAX_SIZE_BYTES' = IF BudgetAssigned(config) THEN config.kb * 1024 ELSE MAX_SIZE_BYTES
    /\ IF load_config(config) = "True"
       THEN main' = "watching" /\ observer' = "running"
       ELSE /\ main' = IF load_config(config) = "False" THEN "exited" ELSE "crashed"
            /\ UNCHANGED observer
    /\ UNCHANGED << config, files, queue, pc, locals, cycleObs, nEvents, delivered >>

\* a file appears in the directory while nothing watches it
CreatedUnwatched(p, c) ==
    /\ main \in {"exited", "crashed"}
    /\ files[p] = Absent
    /\ files' = [files EXCEPT ![p] = c]
    /\ UNCHANGED << globals, queue, observer, pc, locals, cycleObs, nEvents, delivered >>

\* the observer, once started, queues an event for the handler
Deliver(p, dir) ==
    /\ observer # "unstarted"
    /\ nEvents' = nEvents + 1
    /\ queue' = Append(queue, Event(p, dir, nEvents + 1))
    /\ delivered' = IF Eligible(Event(p, dir, nEvents + 1))
                    THEN Append(delivered, nEvents + 1) ELSE delivered

\* a new file appears in the watched directory
FileCreated(p, c) ==
    /\ nEvents < MaxEvents
    /\ files[p] = Absent
    /\ files' = [files EXCEPT ![p] = c]
    /\ Deliver(p, FALSE)
    /\ UNCHANGED << globals, observer, pc, locals, cycleObs >>

\* a further creation event fires for a file that is already there
Renotify(p) ==
    /\ nEvents < MaxEvents
    /\ files[p] # Absent
    /\ Deliver(p, FALSE)
    /\ UNCHANGED << globals, files, observer, pc, locals, cycleObs >>

\* a sub-directory is created
DirCreated ==
    /\ nEvents < MaxEvents
    /\ Deliver(PathD, TRUE)
    /\ UNCHANGED << globals, files, observer, pc, locals, cycleObs >>

\* Ctrl+C in the main thread: observer.stop()
Interrupt ==
    /\ observer = "running"
    /\ observer' = "stopped"
    /\ UNCHANGED << globals, files, queue, pc, locals, cycleObs,
                    nEvents, delivered >>

----------------------------------------------------------------------------
(* The observer thread: on_created and process_image *)

\* variant: without the except clauses only the return leaves process_image
\* normally; an exception ends the observer thread inside the handler
Leave_Uncaught(how) ==
    /\ how \in {"written", "unsatisfiable"}
    /\ pc' = "idle"
    /\ outcome' = how
    /\ inflight' = inflight - 1
    /\ prev' = [prev EXCEPT ![image_path] = how]

\* process_image is left: by return, by falling out of the loop, or through
\* one of the except clauses
Leave(how) ==
    /\ pc' = "idle"
    /\ outcome' = how
    /\ inflight' = inflight - 1
    /\ prev' = [prev EXCEPT ![image_path] = how]

ProcessImageEntry(ev) ==
    /\ pc' = "open"
    /\ image_path' = ev.src_path
    /\ img' = NoImg
    /\ buffer' = None
    /\ low' = 1
    /\ high' = 95
    /\ best_quality' = -1
    /\ best_image_bytes' = None
    /\ wbytes' = None
    /\ started' = Append(started, ev.id)
    /\ inflight' = inflight + 1
    /\ before' = files[ev.src_path]
    /\ nEnc' = 0
    /\ nResize' = 0
    /\ outcome' = "none"
    /\ second' = (prev[ev.src_path] = "written")
    /\ nWrites' = 0
    /\ probed' = {}
    /\ UNCHANGED prev

\* variant: the newest event is taken first
NextEvent_Newest(q) == q[Len(q)]

\* the observer thread takes the events in the order they were queued
NextEvent(q) == Head(q)

OnCreated ==
    /\ observer = "running"
    /\ pc = "idle"
    /\ queue # << >>
    /\ queue' = Tail(queue)
    /\ IF Eligible(NextEvent(queue))
       THEN ProcessImageEntry(NextEvent(queue))
       ELSE UNCHANGED << pc, locals, cycleObs >>
    /\ UNCHANGED << globals, files, observer, nEvents, delivered >>

OpenImage ==
    /\ pc = "open"
    /\ LET st == files[image_path].status IN
         \/ /\ st \in {"not_image", "empty", "absent"}
            /\ Leave("decode_error")
            /\ UNCHANGED img
         \/ /\ st = "bomb"
            /\ Leave("unexpected_error")
            /\ UNCHANGED img
         \/ /\ st \in {"ok", "truncated"}
            /\ \E im \in Decoded(files[image_path]) : img' = im
            /\ pc' = "convert"
            /\ UNCHANGED << outcome, inflight, prev >>
    /\ UNCHANGED << globals, files, queue, observer, image_path, buffer, low, high,
                    best_quality, best_image_bytes, wbytes, nEvents, delivered,
                    started, before, nEnc, nResize, second, nWrites, probed >>

\* variant: truncated files are loaded as far as they go
LoadFails_Never(content) == FALSE

\* decoding the pixels (img.convert, img.save) raises for a file cut short
LoadFails(content) == content.status = "truncated"

Normalize ==
    /\ pc = "convert"
    /\ IF img.mode # "L"
       THEN IF LoadFails(files[image_path])
            THEN Leave("decode_error") /\ UNCHANGED img
            ELSE /\ img' = Convert(img)
                 /\ pc' = "default"
                 /\ UNCHANGED << outcome, inflight, prev >>
       ELSE /\ pc' = "default"
            /\ UNCHANGED << img, outcome, inflight, prev >>
    /\ UNCHANGED << globals, files, queue, observer, image_path, buffer, low, high,
                    best_quality, best_image_bytes, wbytes, nEvents, delivered,
                    started, before, nEnc, nResize, second, nWrites, probed >>

\* variant: the next quality above low is tried
Mid_Linear(lo, hi) == lo

\* mid = (low + high) // 2
Mid(lo, hi) == (lo + hi) \div 2

\* variant: the sizes are compared in whole kilobytes
Fits_WholeKB(size) == size \div 1024 <= MAX_SIZE_BYTES \div 1024

\* variant: a size of exactly the budget is refused
Fits_Strict(size) == size < MAX_SIZE_BYTES

\* buffer.tell() <= MAX_SIZE_BYTES
Fits(size) == size <= MAX_SIZE_BYTES

\* variant: the search starts from quality 0
SearchInit_FromZero ==
    /\ low' = 0
    /\ high' = 95
    /\ best_quality' = -1
    /\ best_image_bytes' = None
    /\ probed' = {}

\* lines 59-62 of find_optimal_quality
SearchInit ==
    /\ low' = 1
    /\ high' = 95
    /\ best_quality' = -1
    /\ best_image_bytes' = None
    /\ probed' = {}

\* variant: the fast path is not taken, the search runs on every image
DefaultEncode_AlwaysSearch ==
    /\ pc = "default"
    /\ IF LoadFails(files[image_path])
       THEN /\ Leave("decode_error")
            /\ UNCHANGED << buffer, wbytes, low, high, best_quality, best_image_bytes, probed >>
       ELSE /\ buffer' = EncodeDefault(img)
            /\ SearchInit
            /\ pc' = "search"
            /\ UNCHANGED << wbytes, outcome, inflight, prev >>
    /\ UNCHANGED << globals, files, queue, observer, image_path, img,
                    nEvents, delivered, started, before, nEnc, nResize, second, nWrites >>

DefaultEncode ==
    /\ pc = "default"
    /\ IF LoadFails(files[image_path])
       THEN /\ Leave("decode_error")
            /\ UNCHANGED << buffer, wbytes, low, high, best_quality, best_image_bytes, probed >>
       ELSE /\ buffer' = EncodeDefault(img)
            /\ IF Fits(EncodeDefault(img).size)
               THEN /\ wbytes' = EncodeDefault(img)
                    /\ pc' = "write_open"
                    /\ UNCHANGED << low, high, best_quality, best_image_bytes, probed >>
               ELSE /\ SearchInit
                    /\ pc' = "search"
                    /\ UNCHANGED wbytes
            /\ UNCHANGED << outcome, inflight, prev >>
    /\ UNCHANGED << globals, files, queue, observer, image_path, img,
                    nEvents, delivered, started, before, nEnc, nResize, second, nWrites >>

\* variant: after a fit the search goes on below mid
SearchStep_Downward ==
    /\ pc = "search"
    /\ low <= high
    /\ LET mid == Mid(low, high)
           enc == EncodeQuality(img, mid)
       IN  IF Fits(enc.size)
           THEN /\ best_quality' = mid
                /\ best_image_bytes' = enc
                /\ high' = mid - 1
                /\ UNCHANGED low
           ELSE /\ low' = mid + 1
                /\ UNCHANGED << high, best_quality, best_image_bytes >>
    /\ nEnc' = nEnc + 1
    /\ probed' = probed \cup {Mid(low, high)}
    /\ UNCHANGED << globals, files, queue, observer, pc, image_path, img, buffer,
                    wbytes, nEvents, delivered, started, inflight, before, nResize,
                    outcome, prev, second, nWrites >>

\* one iteration of the while loop of find_optimal_quality
SearchStep ==
    /\ pc = "search"
    /\ low <= high
    /\ LET mid == Mid(low, high)
           enc == EncodeQuality(img, mid)
       IN  IF Fits(enc.size)
           THEN /\ best_quality' = mid
                /\ best_image_bytes' = enc
                /\ low' = mid + 1
                /\ UNCHANGED high
           ELSE /\ high' = mid - 1
                /\ UNCHANGED << low, best_quality, best_image_bytes >>
    /\ nEnc' = nEnc + 1
    /\ probed' = probed \cup {Mid(low, high)}
    /\ UNCHANGED << globals, files, queue, observer, pc, image_path, img, buffer,
                    wbytes, nEvents, delivered, started, inflight, before, nResize,
                    outcome, prev, second, nWrites >>

\* variant: the original resolution is never accepted by the search
SearchReturn_ShrinkFirst ==
    /\ pc = "search"
    /\ low > high
    /\ IF best_quality # -1 /\ nResize > 0
       THEN /\ wbytes' = best_image_bytes
            /\ pc' = "write_open"
       ELSE /\ pc' = "shrink"
            /\ UNCHANGED wbytes
    /\ UNCHANGED << globals, files, queue, observer, image_path, img, buffer,
                    low, high, best_quality, best_image_bytes, nEvents, delivered,
                    cycleObs >>

\* find_optimal_quality returns and the caller tests quality != -1
SearchReturn ==
    /\ pc = "search"
    /\ low > high
    /\ IF best_quality # -1
       THEN /\ wbytes' = best_image_bytes
            /\ pc' = "write_open"
       ELSE /\ pc' = "shrink"
            /\ UNCHANGED wbytes
    /\ UNCHANGED << globals, files, queue, observer, image_path, img, buffer,
                    low, high, best_quality, best_image_bytes, nEvents, delivered,
                    cycleObs >>

\* variant: a dimension of exactly 10 is refused as well
TooSmall_Inclusive(new_width, new_height) == new_width <= 10 \/ new_height <= 10

\* variant: the loop stops only when both dimensions are below 10
TooSmall_Both(new_width, new_height) == new_width < 10 /\ new_height < 10

\* new_width < 10 or new_height < 10
TooSmall(new_width, new_height) == new_width < 10 \/ new_height < 10

\* variant: at the resolution floor the grayscale image is saved as it is
Shrink_SaveAnyway ==
    /\ pc = "shrink"
    /\ LET new_width == Scale(img.w)
           new_height == Scale(img.h)
       IN  IF TooSmall(new_width, new_height)
           THEN /\ wbytes' = buffer
                /\ pc' = "write_open"
                /\ UNCHANGED << img, nResize, low, high, best_quality, best_image_bytes, probed,
                                outcome, inflight, prev >>
           ELSE /\ img' = Resize(img, new_width, new_height)
                /\ nResize' = nResize + 1
                /\ SearchInit
                /\ pc' = "search"
                /\ UNCHANGED << wbytes, outcome, inflight, prev >>
    /\ UNCHANGED << globals, files, queue, observer, image_path, buffer,
                    nEvents, delivered, started, before, nEnc, second, nWrites >>

\* one pass through the head of the while True loop
Shrink ==
    /\ pc = "shrink"
    /\ LET new_width == Scale(img.w)
           new_height == Scale(img.h)
       IN  IF TooSmall(new_width, new_height)
           THEN /\ Leave("unsatisfiable")
                /\ UNCHANGED << img, nResize, low, high, best_quality, best_image_bytes, probed >>
           ELSE /\ img' = Resize(img, new_width, new_height)
                /\ nResize' = nResize + 1
                /\ SearchInit
                /\ pc' = "search"
                /\ UNCHANGED << outcome, inflight, prev >>
    /\ UNCHANGED << globals, files, queue, observer, image_path, buffer, wbytes,
                    nEvents, delivered, started, before, nEnc, second, nWrites >>

\* open(image_path, 'wb') truncates the file
WriteOpen ==
    /\ pc = "write_open"
    /\ files' = [files EXCEPT ![image_path] = EmptyFile]
    /\ pc' = "write_data"
    /\ nWrites' = nWrites + 1
    /\ UNCHANGED << globals, queue, observer, locals, nEvents, delivered,
                    started, inflight, before, nEnc, nResize, outcome, prev, second, probed >>

\* f.write(...), the file is closed and process_image returns
WriteData ==
    /\ pc = "write_data"
    /\ files' = [files EXCEPT ![image_path] = wbytes]
    /\ Leave("written")
    /\ UNCHANGED << globals, queue, observer, locals, nEvents, delivered,
                    started, before, nEnc, nResize, second, nWrites, probed >>

----------------------------------------------------------------------------

Next ==
    \/ LoadConfig
    \/ \E p \in Paths : \E c \in ContentsFor(p) : CreatedUnwatched(p, c)
    \/ \E p \in Paths : \E c \in ContentsFor(p) : FileCreated(p, c)
    \/ \E p \in Paths : Renotify(p)
    \/ DirCreated
    \/ Interrupt
    \/ OnCreated
    \/ OpenImage
    \/ Normalize
    \/ DefaultEncode
    \/ SearchStep
    \/ SearchReturn
    \/ Shrink
    \/ WriteOpen
    \/ WriteData

Spec == Init /\ [][Next]_vars

\* the steps of the observer thread, which runs whenever it has something to do
ObserverThread ==
    \/ OnCreated
    \/ OpenImage
    \/ Normalize
    \/ DefaultEncode
    \/ SearchStep
    \/ SearchReturn
    \/ Shrink
    \/ WriteOpen
    \/ WriteData

FairSpec == Spec /\ WF_vars(ObserverThread)

----------------------------------------------------------------------------
(* Notions used by the properties *)

InCycle == pc # "idle"
CycleOver == pc = "idle" /\ outcome \notin {"none"}

\* the grayscale image the running/last cycle started from (resolution level 0)
StartImg == Resize(Convert(img), before.pixels.w, before.pixels.h)

RECURSIVE LevelSet(_)
\* the images of all resolution levels: the image itself and every x0.9
\* downscale of it that keeps both dimensions >= 10
LevelSet(im) ==
    IF Scale(im.w) < 10 \/ Scale(im.h) < 10
    THEN { im }
    ELSE { im } \cup LevelSet(Resize(im, Scale(im.w), Scale(im.h)))

Qualities == 1..95

FitQualities(im) == { q \in Qualities : QualitySize(im, q) <= MAX_SIZE_BYTES }

ExistsFit(im) == \E lv \in LevelSet(im) : FitQualities(lv) # {}

\* encoded size is non-decreasing in the quality
Monotone(im) ==
    \A q \in 1..94 : QualitySize(im, q) <= QualitySize(im, q + 1)

MaxOf(S) == CHOOSE x \in S : \A y \in S : y <= x

----------------------------------------------------------------------------
(* C1: whenever process_image writes to the file (fast path, quality search
   at the original resolution, or quality search after downscaling), the bytes
   handed to the write, and the file after the cycle, are at most
   MAX_SIZE_BYTES long. *)
C1_WriteWithinBudget ==
    /\ pc \in {"write_open", "write_data"} =>
          wbytes.status = "ok" /\ wbytes.size <= MAX_SIZE_BYTES
    /\ (pc = "idle" /\ nWrites > 0) =>
          files[image_path].status = "ok" /\ files[image_path].size <= MAX_SIZE_BYTES

C1_Witness ==
    /\ pc = "idle" /\ nWrites > 0 /\ nResize > 0
    /\ files[image_path].size <= MAX_SIZE_BYTES

(* C2 as stated: whenever some quality in 1..95 at some resolution level
   encodes to at most the budget, the cycle ends by writing budget-fitting
   bytes rather than in the failure report. *)
C2_Complete ==
    (CycleOver /\ outcome \in {"written", "unsatisfiable"} /\ ExistsFit(StartImg)) =>
        /\ outcome = "written"
        /\ files[image_path].size <= MAX_SIZE_BYTES

(* C2 amended: provided the encoded size is non-decreasing in the quality at
   every resolution level, whenever some quality at some level fits the budget
   the cycle ends by writing budget-fitting bytes. *)
C2_CompleteIfMonotone ==
    (/\ CycleOver /\ outcome \in {"written", "unsatisfiable"}
     /\ \A lv \in LevelSet(StartImg) : Monotone(lv)
     /\ ExistsFit(StartImg)) =>
        /\ outcome = "written"
        /\ files[image_path].size <= MAX_SIZE_BYTES

C2_Witness ==
    /\ CycleOver /\ outcome = "written" /\ nResize > 1
    /\ \A lv \in LevelSet(StartImg) : Monotone(lv)
    /\ FitQualities(StartImg) = {}

(* C3: when the quality search ends on an image whose encoded size is
   non-decreasing in the quality and for which some quality in 1..95 fits the
   budget, the returned quality is the largest fitting quality and the
   returned bytes are the encoding at exactly that quality. *)
C3_MaximalQuality ==
    (pc = "search" /\ low > high /\ Monotone(img) /\ FitQualities(img) # {}) =>
        /\ best_quality = MaxOf(FitQualities(img))
        /\ best_image_bytes = EncodeQuality(img, best_quality)

C3_Witness ==
    /\ pc = "search" /\ low > high /\ Monotone(img)
    /\ img.fmt = "JPEG"
    /\ best_quality \in 2..94
    /\ best_quality = MaxOf(FitQualities(img))

(* C4: for every image whose default-settings encoding of the grayscale image
   is within the budget, the cycle performs no quality-search encode and no
   resize, and the bytes written to the file are exactly that default-encoded
   buffer. *)
C4_FastPath ==
    (/\ before.status = "ok" /\ img # NoImg
     /\ pc \notin {"open", "convert", "default"}
     /\ DefaultSize(StartImg) <= MAX_SIZE_BYTES) =>
        /\ nEnc = 0 /\ nResize = 0
        /\ pc \in {"write_open", "write_data", "idle"}
        /\ wbytes = EncodeDefault(StartImg)
        /\ pc = "idle" => (outcome = "written" /\ files[image_path] = EncodeDefault(StartImg))

C4_Witness ==
    /\ before.status = "ok" /\ before.pixels.mode = "RGB"
    /\ pc = "idle" /\ outcome = "written"
    /\ DefaultSize(StartImg) <= MAX_SIZE_BYTES
    /\ files[image_path] = EncodeDefault(StartImg)

(* C5 as stated: a second run of process_image on a file that a previous run
   wrote takes the fast path (no quality search, no resize) and leaves the
   file no smaller than the first run left it. *)
C5_Idempotent ==
    (CycleOver /\ second) =>
        /\ nEnc = 0 /\ nResize = 0
        /\ files[image_path].size >= before.size

(* C5 amended: a second run on a file of the lossless format that a previous
   run wrote and whose default-settings encoding fits the budget (as is the
   case for every file the previous run wrote through the fast path) takes
   the fast path; if the previous run took the fast path, the second run
   writes back the very same bytes. *)
C5_IdempotentAfterFastPath ==
    (/\ CycleOver /\ second /\ before.pixels.fmt # "JPEG"
     /\ DefaultSize(before.pixels) <= MAX_SIZE_BYTES) =>
        /\ nEnc = 0 /\ nResize = 0
        /\ outcome = "written"
        /\ before.enc = "default" => files[image_path] = before

C5_Witness ==
    /\ CycleOver /\ second /\ before.enc = "default" /\ before.pixels.fmt # "JPEG"
    /\ outcome = "written" /\ nWrites = 1

\* the resolution fallback has stopped at the floor without any fit
FloorReached ==
    /\ img # NoImg /\ nEnc > 0
    /\ best_quality = -1 /\ low > high
    /\ pc \notin {"search", "shrink"}
    /\ (Scale(img.w) < 10 \/ Scale(img.h) < 10)

(* C6: when the resolution fallback stops because a downscaled width or
   height would be below 10 and no fitting encoding was found, the cycle ends
   without any write: the file is what it was before the cycle. *)
C6_FailureLeavesFile ==
    FloorReached =>
        /\ pc = "idle" /\ outcome = "unsatisfiable"
        /\ nWrites = 0
        /\ files[image_path] = before

C6_Witness ==
    /\ FloorReached /\ pc = "idle" /\ outcome = "unsatisfiable"
    /\ nResize > 0
    /\ files[image_path] = before /\ before.status = "ok"

(* C7 as stated: the file is replaced atomically, so at every moment during
   and after a cycle the file holds either the complete original bytes or the
   complete result bytes, never an empty or partial file. *)
C7_AtomicReplace ==
    (InCycle \/ CycleOver) =>
        \/ files[image_path] = before
        \/ files[image_path] = wbytes /\ wbytes.status = "ok"

IsPrefix(a, b) == Len(a) <= Len(b) /\ SubSeq(b, 1, Len(a)) = a

(* C8: at most one process_image invocation is in flight at any time, and the
   eligible events are processed in the order in which they were delivered. *)
C8_OneAtATimeInOrder ==
    /\ inflight \in {0, 1}
    /\ inflight = 1 <=> pc # "idle"
    /\ IsPrefix(started, delivered)

C8_Witness ==
    /\ Len(started) = 2 /\ started = delivered
    /\ inflight = 1
    /\ image_path # PathA

(* C9: when the file is not a valid image (opening it, or loading its pixels
   for the conversion or the default encoding, fails), the cycle ends in the
   decode-error report without any write and the file is unchanged. *)
C9_DecodeErrorLeavesFile ==
    before.status \in {"not_image", "truncated"} =>
        /\ pc \in {"open", "convert", "default", "idle"}
        /\ pc = "idle" => outcome = "decode_error"
        /\ nWrites = 0
        /\ files[image_path] = before

C9_Witness ==
    /\ before.status = "truncated" /\ img # NoImg
    /\ pc = "idle" /\ outcome = "decode_error"
    /\ files[image_path] = before

Failures == {"decode_error", "unexpected_error", "unsatisfiable"}

Range(f) == { f[i] : i \in DOMAIN f }

(* C10: whatever way a cycle fails, process_image returns to the handler, and
   every eligible event that was delivered is processed in its turn unless
   the operator stops the observer. *)
C10_WatcherSurvives ==
    /\ [](InCycle => <>(pc = "idle"))
    /\ \A n \in 1..MaxEvents :
          [](n \in Range(delivered) => <>(n \in Range(started) \/ observer = "stopped"))

C10_Witness ==
    /\ Len(started) = 2 /\ inflight = 1
    /\ observer = "running"
    /\ \E p \in Paths : prev[p] \in Failures

\* one of the configuration errors: no file, no Settings section, one of the
\* two options missing, or a configured directory that does not exist
ConfigFault(cfg) ==
    \/ ~cfg.present
    \/ cfg.layout # "settings"
    \/ cfg.directory = "missing"
    \/ cfg.maxsize = "missing"
    \/ cfg.directory = "no_such_dir"

\* the observer was never scheduled or started and nothing was processed
NeverWatched ==
    /\ observer = "unstarted"
    /\ queue = << >> /\ nEvents = 0
    /\ pc = "idle" /\ started = << >> /\ inflight = 0
    /\ nWrites = 0 /\ outcome = "none"

(* C11 as stated: with a configuration error (file missing, Settings section
   or either key missing, directory not existing) load_config returns False
   and the observer is never scheduled or started, so no file is processed. *)
C11_ConfigErrorReturnsFalse ==
    (main # "start" /\ ConfigFault(config)) =>
        /\ load_config(config) = "False"
        /\ main = "exited"
        /\ NeverWatched

(* C11 amended: with a configuration error load_config never returns True and
   the observer is never scheduled or started, so no file is processed;
   load_config returns False unless the file has options outside any section
   header or a MaxSizeKB that is not an integer, in which cases the exception
   of the parser leaves load_config and ends the process. *)
C11_ConfigErrorNeverWatches ==
    (main # "start" /\ ConfigFault(config)) =>
        /\ load_config(config) # "True"
        /\ main \in {"exited", "crashed"}
        /\ NeverWatched
        /\ (config.layout # "no_header" /\ config.maxsize # "text") =>
              (load_config(config) = "False" /\ main = "exited")

C11_Witness ==
    /\ main = "exited" /\ config.directory = "no_such_dir"
    /\ MAX_SIZE_BYTES = 1024
    /\ \E p \in Paths : files[p].status = "ok"
    /\ NeverWatched

Upper(c) ==
    CASE c = "p" -> "P" [] c = "n" -> "N" [] c = "g" -> "G" [] c = "j" -> "J"
      [] c = "e" -> "E" [] c = "b" -> "B" [] c = "m" -> "M" [] c = "i" -> "I"
      [] c = "f" -> "F" [] OTHER -> c

\* the last characters of the path spell ext in lower or upper case letters
EndsWithAnyCase(path, ext) ==
    /\ Len(ext) <= Len(path)
    /\ \A i \in 1..Len(ext) :
          path[Len(path) - Len(ext) + i] \in {ext[i], Upper(ext[i])}

ImageExtensions ==
    { <<".", "p", "n", "g">>, <<".", "j", "p", "g">>, <<".", "j", "p", "e", "g">>,
      <<".", "b", "m", "p">>, <<".", "g", "i", "f">> }

ShouldProcess(ev) ==
    /\ ~ev.is_directory
    /\ \E ext \in ImageExtensions : EndsWithAnyCase(ev.src_path, ext)

(* C12: a creation event taken by the handler starts process_image if and
   only if it is not a directory event and its path ends, in any letter case,
   in .png, .jpg, .jpeg, .bmp or .gif; for every other event the handler
   returns at once and no file is read or written. *)
C12_ExtensionFilter ==
    [][ (pc = "idle" /\ queue # << >> /\ queue' = Tail(queue)) =>
            IF ShouldProcess(Head(queue))
            THEN /\ pc' = "open"
                 /\ image_path' = Head(queue).src_path
                 /\ started' = Append(started, Head(queue).id)
            ELSE /\ pc' = "idle"
                 /\ files' = files
                 /\ started' = started /\ nWrites' = nWrites /\ img' = img ]_vars

C12_Witness ==
    /\ nEvents = 2 /\ queue = << >>
    /\ started = << 2 >>
    /\ image_path = PathA /\ pc = "open"

(* C13: one call of find_optimal_quality performs at most 7 encodes and is
   left only with low > high, whichever encodes fit: after k encodes the
   interval low..high holds fewer than 2^(7-k) qualities, so after the
   seventh it is empty. *)
C13_BoundedSearch ==
    /\ Cardinality(probed) <= 7
    /\ pc = "search" => high - low + 1 < 2 ^ (7 - Cardinality(probed))
    /\ Cardinality(probed) = 7 => low > high
    /\ (probed # {} /\ pc # "search") => low > high

C13_Witness ==
    /\ pc = "write_open" /\ low > high
    /\ Cardinality(probed) = 7
    /\ best_quality = 95

RECURSIVE BinarySearch(_, _, _, _)
\* the quality find_optimal_quality returns for an image, computed as its
\* loop computes it
BinarySearch(im, lo, hi, best) ==
    IF lo > hi THEN best
    ELSE IF QualitySize(im, Mid(lo, hi)) <= MAX_SIZE_BYTES
         THEN BinarySearch(im, Mid(lo, hi) + 1, hi, Mid(lo, hi))
         ELSE BinarySearch(im, lo, Mid(lo, hi) - 1, best)

find_optimal_quality(im) == BinarySearch(im, 1, 95, -1)

\* the resolution levels above the one the cycle is at
LevelsAbove == { lv \in LevelSet(StartImg) : lv.w > img.w }

\* the quality search of the running/last cycle has found a fit
FitFound ==
    /\ probed # {} /\ best_quality # -1
    /\ pc \in {"write_open", "write_data", "idle"}

(* C14: the file is written at resolution level k only if the quality search
   found no fit at every level 0..k-1, and once a level yields a fit no
   further resize or encode happens in that cycle. *)
C14_FirstFittingLevel ==
    /\ [](FitFound =>
            /\ Cardinality(LevelsAbove) = nResize
            /\ \A lv \in LevelsAbove : find_optimal_quality(lv) = -1
            /\ find_optimal_quality(img) = best_quality
            /\ wbytes = EncodeQuality(img, best_quality))
    /\ [][ (FitFound /\ pc # "idle") =>
              /\ nEnc' = nEnc /\ nResize' = nResize /\ img' = img
              /\ probed' = probed /\ wbytes' = wbytes
              /\ pc' \in {pc, "write_data", "idle"} ]_vars

C14_Witness ==
    /\ FitFound /\ pc = "idle" /\ outcome = "written"
    /\ nResize >= 2
    /\ files[image_path] = EncodeQuality(img, best_quality)

Ended == {"written", "unsatisfiable", "decode_error", "unexpected_error"}

(* C15: every cycle terminates: once process_image is entered it eventually
   ends, in a single write or in a failure report without a write, because
   every pass of the fallback loop makes both dimensions strictly smaller
   until one of them would fall below 10. *)
C15_CycleTerminates ==
    /\ [](InCycle => <>(/\ pc = "idle" /\ outcome \in Ended
                        /\ nWrites = (IF outcome = "written" THEN 1 ELSE 0)))
    /\ [][ nResize' = nResize + 1 =>
              /\ img'.w < img.w /\ img'.h < img.h
              /\ img'.w = Scale(img.w) /\ img'.h = Scale(img.h) ]_vars
    /\ [](nResize <= before.pixels.w /\ nResize <= before.pixels.h)

C15_Witness ==
    /\ pc = "idle" /\ outcome = "unsatisfiable"
    /\ nResize >= 8 /\ nWrites = 0
    /\ img.w < 20

\* k is 0.9 * n rounded down
IsFloorOfNineTenths(k, n) == 10 * k <= 9 * n /\ 9 * n < 10 * (k + 1)

MinDimension == 10

(* C16: every fallback level has the dimensions (floor(0.9*w), floor(0.9*h))
   of the level before it, a quality search runs on a downscaled image only if
   both of its dimensions are at least 10, and so a file written after a
   downscale is at least 10 wide and 10 high and strictly smaller in both
   dimensions than the original. *)
C16_DownscaleFloor ==
    /\ [][ nResize' = nResize + 1 =>
              /\ IsFloorOfNineTenths(img'.w, img.w)
              /\ IsFloorOfNineTenths(img'.h, img.h) ]_vars
    /\ [](nResize > 0 =>
            /\ img.w >= MinDimension /\ img.h >= MinDimension
            /\ img.w < before.pixels.w /\ img.h < before.pixels.h)
    /\ []((nResize > 0 /\ nWrites > 0 /\ pc = "idle") =>
            /\ files[image_path].pixels.w >= MinDimension
            /\ files[image_path].pixels.h >= MinDimension
            /\ files[image_path].pixels.w < before.pixels.w
            /\ files[image_path].pixels.h < before.pixels.h)

C16_Witness ==
    /\ pc = "idle" /\ outcome = "written" /\ nResize > 0
    /\ before.pixels.w = 40 /\ before.pixels.h = 30
    /\ files[image_path].pixels.w = 15 /\ files[image_path].pixels.h = 10

\* the attempts of the running/last search that fitted the budget
FittedProbes == { q \in probed : QualitySize(img, q) <= MAX_SIZE_BYTES }

(* C17: within one run of find_optimal_quality every attempt that fits is
   recorded as the best and has a quality strictly greater than the best
   recorded before it, whatever the size function of the encoder, so the
   recorded (and returned) quality is the highest among the attempts of the
   run that fitted. *)
C17_BestOnlyImproves ==
    /\ [][ (pc = "search" /\ probed' # probed /\ probed' # {}) =>
              \A q \in probed' \ probed :
                 IF QualitySize(img, q) <= MAX_SIZE_BYTES
                 THEN best_quality' = q /\ q > best_quality
                 ELSE best_quality' = best_quality ]_vars
    /\ [](probed # {} =>
            /\ (FittedProbes = {}) <=> (best_quality = -1)
            /\ FittedProbes # {} => best_quality = MaxOf(FittedProbes))

C17_Witness ==
    /\ pc = "search" /\ low > high
    /\ img.shape = "dip" /\ ~Monotone(img)
    /\ Cardinality(FittedProbes) >= 3
    /\ best_quality = MaxOf(FittedProbes)

(* C18: in every state of find_optimal_quality low is at least 1 and high at
   most 95, every probed mid lies in low..high and so in 1..95, the quality
   returned is -1 or in 1..95, and the bytes returned are None exactly when
   the quality is -1. *)
C18_SearchStateInRange ==
    /\ [](/\ 1 <= low /\ low <= 96
          /\ 0 <= high /\ high <= 95
          /\ probed \subseteq Qualities
          /\ best_quality = -1 \/ best_quality \in Qualities
          /\ (best_image_bytes = None) <=> (best_quality = -1))
    /\ [][ (probed' # probed /\ probed' # {}) =>
              \A q \in probed' \ probed : low <= q /\ q <= high ]_vars

C18_Witness ==
    /\ pc = "search" /\ low > high
    /\ high = 0 /\ low = 1
    /\ best_quality = -1 /\ best_image_bytes = None
    /\ 1 \in probed

\* some encoding of the image the cycle decoded fits the budget on the way
\* the cycle goes: the default encoding, or the result of the quality search
\* at the original resolution or at one of the downscaled levels
FittingEncodingFound ==
    /\ before.status = "ok"
    /\ \/ DefaultSize(StartImg) <= MAX_SIZE_BYTES
       \/ \E lv \in LevelSet(StartImg) : find_optimal_quality(lv) # -1

(* C19: in one invocation of process_image the file is opened for writing at
   most once: exactly once when a fitting encoding is found (fast path,
   original resolution or a downscaled level) and never otherwise; and the
   only file a cycle writes is the one named by the event that started it. *)
C19_OneWritePerCycle ==
    /\ [](nWrites <= 1)
    /\ [](CycleOver => nWrites = (IF FittingEncodingFound THEN 1 ELSE 0))
    /\ [][ nWrites' # nWrites =>
              \/ nWrites' = 0 /\ pc = "idle" /\ image_path' = Head(queue).src_path
              \/ /\ nWrites' = nWrites + 1 /\ image_path' = image_path
                 /\ \A p \in Paths \ {image_path} : files'[p] = files[p] ]_vars
    /\ [][ \A p \in Paths :
              files'[p] # files[p] =>
                 \/ files[p] = Absent /\ pc' = pc
                 \/ p = image_path /\ pc \in {"write_open", "write_data"} ]_vars

C19_Witness ==
    /\ CycleOver /\ outcome = "written" /\ nWrites = 1
    /\ FittingEncodingFound
    /\ \E p \in Paths \ {image_path} : files[p].status = "ok" /\ files[p].enc = "orig"

====
